---- MODULE Spec2Model ----
(***************************************************************************)
(* Model of the identity-verification orchestrator of ufro-master:         *)
(*   src/orchestrator/fuse.py        identify_person, _identify_person_async*)
(*   src/orchestrator/pp2_client.py  call_verifier                          *)
(*   src/db/mongo.py                 get_db                                 *)
(*                                                                         *)
(* One identify request is followed from its start to its return.          *)
(*                                                                         *)
(* Numbers.  Scores, thresholds and delta are Python floats.  They are     *)
(* modelled as integers counting units of 1/160: 0.9 is 144 and 0.5 is 80. *)
(* Scores and delta range over multiples of 5 units (multiples of 1/32),   *)
(* which binary floating point represents exactly, so the float            *)
(* subtraction top - second and every comparison of the code coincide with *)
(* the integer ones of the model.  NaN and infinite scores are outside the *)
(* inputs enumerated.                                                      *)
(***************************************************************************)
EXTENDS Integers, Sequences, FiniteSets, TLC

VARIABLES
    conf,               \* the pp2 list held by the configuration source (registry.yaml)
    delta,              \* the request's delta parameter
    pc,                 \* position of identify_person
    reg_async,          \* pp2_list read by _identify_person_async (fuse.py:25-26)
    tasks,              \* the coroutines handed to asyncio.gather, in dispatch order
    results,            \* what _identify_person_async returned
    pp2_list,           \* pp2_list read by identify_person (fuse.py:94-95)
    candidates,         \* the ranked candidates
    decision,
    identity,           \* <<>> for None, <<[score, threshold, is_me]>> otherwise
    service_threshold,  \* the threshold the decision compared against; <<>> when none was resolved
    access_logs,        \* per-request audit records written
    raised,             \* the exception that escaped identify_person, "" when none
    out_of_order,       \* history: some call settled while an earlier-dispatched one was pending
    pp1,                \* the pp1 list of the registry read by ask_normativa_tool
    n_pc,               \* position of ask_normativa_tool
    backend,            \* history: what the retrieval backend did, <<>> before the call
    resp,               \* what ask_normativa returned, <<>> before the call
    service_logs,       \* pp1 records written by ask_normativa_tool
    answer              \* what ask_normativa_tool returned, <<>> before it returns

vars == <<conf, delta, pc, reg_async, tasks, results, pp2_list, candidates,
          decision, identity, service_threshold, access_logs, raised, out_of_order,
          pp1, n_pc, backend, resp, service_logs, answer>>

identify_vars == <<conf, delta, pc, reg_async, tasks, results, pp2_list, candidates,
                   decision, identity, service_threshold, access_logs, raised,
                   out_of_order>>

normativa_vars == <<pp1, n_pc, backend, resp, service_logs, answer>>

(***************************************************************************)
(* Bounds of the model.                                                    *)
(***************************************************************************)
MaxReg == 2

(***************************************************************************)
(* Program constants (units of 1/160).                                     *)
(***************************************************************************)
DefaultRegistryThreshold == 144
DefaultReportedThreshold == 80
DefaultScore == 0
DefaultTiming == 0

(***************************************************************************)
(* Loosely typed values.  A field of a YAML descriptor or of a JSON body   *)
(* is a tagged value: k says what is there, v carries a number.            *)
(*   "absent"  the key is missing                                          *)
(*   "num"     a number (or numeric string) that float() converts to v     *)
(*   "bad"     a value float() rejects with ValueError or TypeError        *)
(*             (null, a list, a non-numeric string)                        *)
(*   "huge"    an integer too large for a float: float() raises            *)
(*             OverflowError                                               *)
(*   "true" / "false"   the booleans                                       *)
(***************************************************************************)
Absent == [k |-> "absent", v |-> 0]
Num(n) == [k |-> "num", v |-> n]
Bad == [k |-> "bad", v |-> 0]
Huge == [k |-> "huge", v |-> 0]
PyTrue == [k |-> "true", v |-> 0]
PyFalse == [k |-> "false", v |-> 0]

(***************************************************************************)
(* The registry.  A descriptor is one entry of the pp2 list of             *)
(* registry.yaml.  Descriptors holds the entries the configuration may     *)
(* contain: an ordinary one, one relying on the defaults of active and     *)
(* threshold, an inactive one sharing the name A, and an active one        *)
(* without endpoint.                                                       *)
(***************************************************************************)
Descriptor(n, e, a, t) ==
    [name |-> n, endpoint_verify |-> e, active |-> a, threshold |-> t]

Descriptors ==
    { Descriptor("A", "urlA", PyTrue, Num(150)),
      Descriptor("B", "urlB", Absent, Absent),
      Descriptor("A", "urlOld", PyFalse, Num(80)),
      Descriptor("C", "", PyTrue, Num(144)) }

RECURSIVE SeqsUpTo(_, _)
SeqsUpTo(S, n) ==
    IF n = 0 THEN { <<>> }
    ELSE LET shorter == SeqsUpTo(S, n - 1)
         IN  shorter \cup { Append(s, x) : s \in shorter, x \in S }

Registries == SeqsUpTo(Descriptors, MaxReg)

Deltas == {0, 10, 20}

\* v.get("active", True), used as a condition
IsActive(v) == v.active.k \in {"absent", "true"}

\* a selection that forgets the active flag
IsDispatchedAnyEndpoint(v) == v.endpoint_verify # ""

\* the descriptors the dispatch loop creates a task for
IsDispatched(v) == IsActive(v) /\ v.endpoint_verify # ""

(***************************************************************************)
(* Response bodies.  shape is "none" (the body did not parse, or is JSON   *)
(* null), "list" (JSON that is no object) or "dict".                       *)
(***************************************************************************)
Body(sh, m, s, t, ms) ==
    [shape |-> sh, is_me |-> m, score |-> s, threshold |-> t, timing_ms |-> ms]

NoBody == Body("none", Absent, Absent, Absent, Absent)

Scored(m, s) == Body("dict", m, Num(s), Num(80), Num(5))

Bodies ==
    { NoBody,
      Body("list", Absent, Absent, Absent, Absent),
      Body("dict", PyTrue, Absent, Num(80), Num(5)),
      Scored(PyTrue, 140), Scored(PyTrue, 150), Scored(PyTrue, 160),
      Scored(PyFalse, 150), Scored(PyFalse, 160),
      Body("dict", PyTrue, Bad, Num(80), Num(5)),
      Body("dict", PyTrue, Num(160), Bad, Num(5)),
      Body("dict", PyTrue, Huge, Num(80), Num(5)) }

(***************************************************************************)
(* What the network and the HTTP client do to one call.                    *)
(*   response       a response arrives; body is its parsed JSON            *)
(*   timeout        httpx.TimeoutException                                 *)
(*   connect_error  httpx.ConnectError                                     *)
(*   error          any other Exception from the request                   *)
(*   close_fault    a response arrives and is processed, then leaving the  *)
(*                  async with block (closing the client) raises           *)
(*   fault          an exception leaves the coroutine                      *)
(***************************************************************************)
Net(kd, b, d) == [kind |-> kd, body |-> b, detail |-> d]

Behaviours ==
    { Net("response", b, "") : b \in Bodies }
    \cup { Net("timeout", NoBody, "timed out"),
           Net("connect_error", NoBody, "refused"),
           Net("error", NoBody, "protocol"),
           Net("close_fault", Scored(PyTrue, 160), "close failed"),
           Net("fault", NoBody, "boom") }

(***************************************************************************)
(* call_verifier: what awaiting one task yields.  kind "outcome" is the    *)
(* returned dictionary, kind "exception" an exception object; latency_ms   *)
(* is not modelled.  error is "" for None.                                 *)
(***************************************************************************)
Outcome(sn, ep, st, res, to, err) ==
    [kind |-> "outcome", service_name |-> sn, endpoint |-> ep,
     status_code |-> st, result |-> res, timeout |-> to, error |-> err]

ExceptionObject(msg) ==
    [kind |-> "exception", service_name |-> "", endpoint |-> "",
     status_code |-> "None", result |-> NoBody, timeout |-> FALSE, error |-> msg]

call_verifier(service_name, endpoint, net) ==
    CASE net.kind = "response" ->
            Outcome(service_name, endpoint, "200", net.body, FALSE, "")
      [] net.kind = "timeout" ->
            Outcome(service_name, endpoint, "None", NoBody, TRUE, "timeout")
      [] net.kind = "connect_error" ->
            Outcome(service_name, endpoint, "None", NoBody, FALSE, "connection_error: refused")
      [] net.kind = "error" ->
            Outcome(service_name, endpoint, "None", NoBody, FALSE, net.detail)
      [] net.kind = "close_fault" ->
            Outcome(service_name, endpoint, "200", net.body, FALSE, net.detail)
      [] OTHER -> ExceptionObject(net.detail)

(***************************************************************************)
(* The per-call audit records: the entries call_verifier hands to          *)
(* _log_service_call, in order, for a request_id that is not None (the     *)
(* orchestrator always passes one).  _log_service_call builds the entry    *)
(* from the result dictionary as it is at that moment and swallows every   *)
(* failure of the sink, so the sink has no effect on the value returned.   *)
(* On a close_fault the entry of the success path has been written when    *)
(* the handler of except Exception writes a second one.  A fault that      *)
(* leaves the coroutine has written none.                                  *)
(***************************************************************************)
LogEntry(sn, ep, st, res, to, err) ==
    [service_type |-> "pp2", service_name |-> sn, endpoint |-> ep,
     status_code |-> st, result |-> res, timeout |-> to, error |-> err]

LoggedBy(service_name, endpoint, net) ==
    CASE net.kind = "response" ->
            <<LogEntry(service_name, endpoint, "200", net.body, FALSE, "")>>
      [] net.kind = "timeout" ->
            <<LogEntry(service_name, endpoint, "None", NoBody, TRUE, "timeout")>>
      [] net.kind = "connect_error" ->
            <<LogEntry(service_name, endpoint, "None", NoBody, FALSE, "connection_error: refused")>>
      [] net.kind = "error" ->
            <<LogEntry(service_name, endpoint, "None", NoBody, FALSE, net.detail)>>
      [] net.kind = "close_fault" ->
            <<LogEntry(service_name, endpoint, "200", net.body, FALSE, ""),
              LogEntry(service_name, endpoint, "200", net.body, FALSE, net.detail)>>
      [] OTHER -> <<>>

(***************************************************************************)
(* The dispatch loop of _identify_person_async: one task per descriptor    *)
(* that is active and has an endpoint, in registry order.  ret is <<>>     *)
(* while the task is pending and <<r>> once it has settled with r; logs    *)
(* holds the audit records the call has emitted.                           *)
(***************************************************************************)
RECURSIVE SelectDispatched(_)
SelectDispatched(pp2) ==
    IF pp2 = <<>> THEN <<>>
    ELSE IF IsDispatched(Head(pp2))
         THEN <<Head(pp2)>> \o SelectDispatched(Tail(pp2))
         ELSE SelectDispatched(Tail(pp2))

BuildTasks(pp2) ==
    LET sel == SelectDispatched(pp2)
    IN  [i \in 1..Len(sel) |->
            [service_name |-> sel[i].name, endpoint |-> sel[i].endpoint_verify,
             ret |-> <<>>, logs |-> <<>>]]

\* active_services of the exception branch: the active descriptors, whether
\* or not they have an endpoint
RECURSIVE ActiveServices(_)
ActiveServices(pp2) ==
    IF pp2 = <<>> THEN <<>>
    ELSE IF IsActive(Head(pp2))
         THEN <<Head(pp2)>> \o ActiveServices(Tail(pp2))
         ELSE ActiveServices(Tail(pp2))

\* the dictionary that replaces an exception found at position i of the
\* gathered results
SyntheticOutcome(pp2, i, r) ==
    LET active_services == ActiveServices(pp2)
    IN  Outcome(IF i <= Len(active_services) THEN active_services[i].name ELSE "unknown",
                IF i <= Len(active_services) THEN active_services[i].endpoint_verify ELSE "",
                "None", NoBody, FALSE, r.error)

\* a loop that leaves the exceptions out instead of replacing them
RECURSIVE ProcessResultsDropping(_, _)
ProcessResultsDropping(pp2, gathered) ==
    IF gathered = <<>> THEN <<>>
    ELSE IF Head(gathered).kind = "exception"
         THEN ProcessResultsDropping(pp2, Tail(gathered))
         ELSE <<Head(gathered)>> \o ProcessResultsDropping(pp2, Tail(gathered))

\* the loop over the gathered results
ProcessResults(pp2, gathered) ==
    [i \in 1..Len(gathered) |->
        IF gathered[i].kind = "exception"
        THEN SyntheticOutcome(pp2, i, gathered[i])
        ELSE gathered[i]]

AllSettled(ts) == \A i \in 1..Len(ts) : ts[i].ret # <<>>

\* a gather that would complete as soon as one task has settled
GatherReadyFirst(ts) == \E i \in 1..Len(ts) : ts[i].ret # <<>>

\* asyncio.gather(*tasks, return_exceptions=True) completes when every task
\* has settled
GatherReady(ts) == AllSettled(ts)

\* what gather hands back: the value or exception of each settled task, in
\* the order of the tasks
RECURSIVE Gathered(_)
Gathered(ts) ==
    IF ts = <<>> THEN <<>>
    ELSE Head(ts).ret \o Gathered(Tail(ts))

(***************************************************************************)
(* Candidate construction (identify_person, the loop over results).        *)
(***************************************************************************)
\* a test that forgets the score key
HasScoreAnyDict(r) == r.result.shape = "dict"

\* isinstance(res, dict) and "score" in res
HasScore(r) == r.result.shape = "dict" /\ r.result.score.k # "absent"

\* how float(x) ends for a tagged value
FloatEnds(x) ==
    CASE x.k = "num" -> "ok"
      [] x.k = "absent" -> "ok"
      [] x.k = "huge" -> "overflow"
      [] OTHER -> "rejected"

\* the conversions are made in the order score, threshold, timing_ms and the
\* first one that fails decides: ValueError and TypeError are caught and
\* give the defaults, OverflowError is not caught
ConversionEnds(res) ==
    LET e == <<FloatEnds(res.score), FloatEnds(res.threshold), FloatEnds(res.timing_ms)>>
        bad == { i \in 1..3 : e[i] # "ok" }
    IN  IF bad = {} THEN "ok"
        ELSE e[CHOOSE i \in bad : \A j \in bad : i <= j]

Float(x, dflt) == IF x.k = "num" THEN x.v ELSE dflt

\* idx is the position of the outcome in results: the code's dictionary has
\* no such key, the model keeps it to tell candidates of equal name apart
Candidate(r, i) ==
    IF ConversionEnds(r.result) = "ok"
    THEN [is_me |-> r.result.is_me.k = "true",
          score |-> Float(r.result.score, DefaultScore),
          threshold |-> Float(r.result.threshold, DefaultReportedThreshold),
          timing_ms |-> Float(r.result.timing_ms, DefaultTiming),
          service |-> r.service_name, idx |-> i]
    ELSE [is_me |-> FALSE, score |-> DefaultScore,
          threshold |-> DefaultReportedThreshold, timing_ms |-> DefaultTiming,
          service |-> r.service_name, idx |-> i]

RECURSIVE BuildFrom(_, _)
BuildFrom(rs, i) ==
    IF i > Len(rs) THEN <<>>
    ELSE IF HasScore(rs[i])
         THEN <<Candidate(rs[i], i)>> \o BuildFrom(rs, i + 1)
         ELSE BuildFrom(rs, i + 1)

BuildCandidates(rs) == BuildFrom(rs, 1)

\* an uncaught OverflowError leaves the loop
BuildRaises(rs) ==
    \E i \in 1..Len(rs) : HasScore(rs[i]) /\ ConversionEnds(rs[i].result) = "overflow"

(***************************************************************************)
(* candidates.sort(key=score, reverse=True): list.sort is stable, also     *)
(* with reverse=True.  Written as insertion of each element, in list       *)
(* order, behind the elements whose score is not smaller.                  *)
(***************************************************************************)
\* an insertion that puts an element before those of equal score
InsertUnstable(s, x) ==
    LET p == Cardinality({ i \in 1..Len(s) : s[i].score > x.score })
    IN  SubSeq(s, 1, p) \o <<x>> \o SubSeq(s, p + 1, Len(s))

InsertByScore(s, x) ==
    LET p == Cardinality({ i \in 1..Len(s) : s[i].score >= x.score })
    IN  SubSeq(s, 1, p) \o <<x>> \o SubSeq(s, p + 1, Len(s))

RECURSIVE SortByScore(_)
SortByScore(s) ==
    IF s = <<>> THEN <<>>
    ELSE InsertByScore(SortByScore(SubSeq(s, 1, Len(s) - 1)), s[Len(s)])

(***************************************************************************)
(* The threshold of the top candidate: the first descriptor of pp2 whose   *)
(* name is the candidate's service, float(v.get("threshold", 0.9)) with    *)
(* 0.9 for any value float() does not convert; 0.9 when no name matches.   *)
(***************************************************************************)
DescriptorThreshold(v) == Float(v.threshold, DefaultRegistryThreshold)

ResolveThreshold(pp2, service) ==
    LET hits == { i \in 1..Len(pp2) : pp2[i].name = service }
    IN  IF hits = {} THEN DefaultRegistryThreshold
        ELSE DescriptorThreshold(pp2[CHOOSE i \in hits : \A j \in hits : i <= j])

(***************************************************************************)
(* The decision rule on ranked candidates.                                 *)
(***************************************************************************)
\* a rule that trusts the score alone
MeetsBarScoreOnly(top, tau) == top.score >= tau

MeetsBar(top, tau) == top.is_me /\ top.score >= tau

\* a margin test that compares the top with the last candidate, itself
\* when it is alone
TooCloseToLast(cands, d) ==
    (cands[1].score - cands[Len(cands)].score) <= d

\* a margin test with a strict comparison
TooCloseStrict(cands, d) ==
    Len(cands) > 1 /\ (cands[1].score - cands[2].score) < d

\* a margin test with the comparison turned around
TooCloseReversed(cands, d) ==
    Len(cands) > 1 /\ (cands[1].score - cands[2].score) >= d

TooClose(cands, d) ==
    Len(cands) > 1 /\ (cands[1].score - cands[2].score) <= d

Decide(cands, pp2, d) ==
    IF cands = <<>>
    THEN [decision |-> "unknown", identity |-> <<>>, service_threshold |-> <<>>]
    ELSE LET top == cands[1]
             tau == ResolveThreshold(pp2, top.service)
         IN  IF MeetsBar(top, tau)
             THEN IF TooClose(cands, d)
                  THEN [decision |-> "ambiguous", identity |-> <<>>,
                        service_threshold |-> <<tau>>]
                  ELSE [decision |-> "identified",
                        identity |-> <<[score |-> top.score, threshold |-> tau,
                                        is_me |-> top.is_me]>>,
                        service_threshold |-> <<tau>>]
             ELSE [decision |-> "unknown", identity |-> <<>>,
                   service_threshold |-> <<tau>>]

(***************************************************************************)
(* The request.                                                            *)
(***************************************************************************)
Init ==
    /\ conf \in Registries
    /\ delta \in Deltas
    /\ pc = "start"
    /\ reg_async = <<>>
    /\ tasks = <<>>
    /\ results = <<>>
    /\ pp2_list = <<>>
    /\ candidates = <<>>
    /\ decision = "unknown"
    /\ identity = <<>>
    /\ service_threshold = <<>>
    /\ access_logs = <<>>
    /\ raised = ""
    /\ out_of_order = FALSE
    /\ pp1 = <<>>
    /\ n_pc = "off"
    /\ backend = <<>>
    /\ resp = <<>>
    /\ service_logs = <<>>
    /\ answer = <<>>

\* identify_person starts the event loop; _identify_person_async reads the
\* registry and creates the tasks, and returns [] when there is none
Dispatch ==
    /\ pc = "start"
    /\ reg_async' = conf
    /\ tasks' = BuildTasks(conf)
    /\ pc' = IF BuildTasks(conf) = <<>> THEN "collected" ELSE "gather"
    /\ UNCHANGED <<conf, delta, results, pp2_list, candidates, decision, identity,
                   service_threshold, access_logs, raised, out_of_order>>
    /\ UNCHANGED normativa_vars

\* one call_verifier coroutine runs to its end
Settle(i, net) ==
    /\ pc = "gather"
    /\ tasks[i].ret = <<>>
    /\ tasks' = [tasks EXCEPT
                   ![i].ret = <<call_verifier(tasks[i].service_name, tasks[i].endpoint, net)>>,
                   ![i].logs = LoggedBy(tasks[i].service_name, tasks[i].endpoint, net)]
    /\ UNCHANGED <<conf, delta, pc, reg_async, results, pp2_list, candidates, decision,
                   identity, service_threshold, access_logs, raised>>
    /\ out_of_order' = (out_of_order \/ \E j \in 1..(i - 1) : tasks[j].ret = <<>>)
    /\ UNCHANGED normativa_vars

\* the configuration file is edited while the calls are in flight: its first
\* descriptor is removed
ConfigChange ==
    /\ pc = "gather"
    /\ conf = reg_async
    /\ conf # <<>>
    /\ conf' = Tail(conf)
    /\ UNCHANGED <<delta, pc, reg_async, tasks, results, pp2_list, candidates, decision,
                   identity, service_threshold, access_logs, raised, out_of_order>>
    /\ UNCHANGED normativa_vars

\* gather completes and the exceptions among its results are replaced
Collect ==
    /\ pc = "gather"
    /\ GatherReady(tasks)
    /\ results' = ProcessResults(reg_async, Gathered(tasks))
    /\ pc' = "collected"
    /\ UNCHANGED <<conf, delta, reg_async, tasks, pp2_list, candidates, decision,
                   identity, service_threshold, access_logs, raised, out_of_order>>
    /\ UNCHANGED normativa_vars

\* identify_person reads the registry again, builds and ranks the candidates
\* and decides
DecideStep ==
    /\ pc = "collected"
    /\ pp2_list' = conf
    /\ IF BuildRaises(results)
       THEN /\ pc' = "raised"
            /\ raised' = "OverflowError"
            /\ UNCHANGED <<candidates, decision, identity, service_threshold>>
       ELSE LET cands == SortByScore(BuildCandidates(results))
                d == Decide(cands, conf, delta)
            IN  /\ candidates' = cands
                /\ decision' = d.decision
                /\ identity' = d.identity
                /\ service_threshold' = d.service_threshold
                /\ pc' = "decided"
                /\ UNCHANGED raised
    /\ UNCHANGED <<conf, delta, reg_async, tasks, results, access_logs, out_of_order>>
    /\ UNCHANGED normativa_vars

AccessLog ==
    [decision |-> decision, identity |-> identity,
     total_consulted |-> Len(results),
     timeouts |-> Cardinality({ i \in 1..Len(results) : results[i].timeout })]

\* get_db() is called outside the try block: when it raises (an invalid
\* MONGO_URI or MONGO_DB) the exception leaves identify_person
AuditNoHandle ==
    /\ pc = "decided"
    /\ pc' = "raised"
    /\ raised' = "get_db"
    /\ UNCHANGED <<conf, delta, reg_async, tasks, results, pp2_list, candidates,
                   decision, identity, service_threshold, access_logs, out_of_order>>
    /\ UNCHANGED normativa_vars

\* insert_one raises: swallowed by the except clause
AuditInsertFails ==
    /\ pc = "decided"
    /\ pc' = "returned"
    /\ UNCHANGED <<conf, delta, reg_async, tasks, results, pp2_list, candidates,
                   decision, identity, service_threshold, access_logs, raised, out_of_order>>
    /\ UNCHANGED normativa_vars

AuditWritten ==
    /\ pc = "decided"
    /\ access_logs' = Append(access_logs, AccessLog)
    /\ pc' = "returned"
    /\ UNCHANGED <<conf, delta, reg_async, tasks, results, pp2_list, candidates,
                   decision, identity, service_threshold, raised, out_of_order>>
    /\ UNCHANGED normativa_vars

Next ==
    \/ Dispatch
    \/ \E i \in 1..Len(tasks) : \E net \in Behaviours : Settle(i, net)
    \/ ConfigChange
    \/ Collect
    \/ DecideStep
    \/ AuditNoHandle
    \/ AuditInsertFails
    \/ AuditWritten

Spec == Init /\ [][Next]_vars

\* The event loop runs every coroutine that can run and identify_person
\* goes on after each step; every call dispatched settles.  Nothing makes
\* the configuration change.
Fairness ==
    /\ WF_vars(Dispatch)
    /\ \A i \in 1..MaxReg :
          WF_vars(i \in 1..Len(tasks) /\ \E net \in Behaviours : Settle(i, net))
    /\ WF_vars(Collect)
    /\ WF_vars(DecideStep)
    /\ WF_vars(AuditNoHandle \/ AuditInsertFails \/ AuditWritten)

FairSpec == Spec /\ Fairness

(***************************************************************************)
(* The retrieval bridge: ask_normativa_tool, ask_normativa and the         *)
(* citation normalizer of pp1_client.py.                                   *)
(***************************************************************************)
MaxCit == 2

\* A field of a citation object: k says what is there.
\*   "missing"  the key is not in the object
\*   "null"     None
\*   "text"     the string s
\*   "int"      the integer n
JMissing == [k |-> "missing", s |-> "", n |-> 0]
JNull == [k |-> "null", s |-> "", n |-> 0]
JText(s) == [k |-> "text", s |-> s, n |-> 0]
JInt(n) == [k |-> "int", s |-> "", n |-> n]

\* bool(x): None, "" and 0 are false
Truthy(x) ==
    \/ x.k = "text" /\ x.s # ""
    \/ x.k = "int" /\ x.n # 0

\* str(x)
Str(x) == IF x.k = "text" THEN x.s
          ELSE IF x.k = "int" THEN ToString(x.n)
          ELSE "None"

\* x or y
Or(x, y) == IF Truthy(x) THEN x ELSE y

CitationKeys ==
    {"doc", "document", "title", "name", "page", "p",
     "section", "sec", "section_number", "url", "link", "href"}

\* the object that has the keys of f
Fields(f) == [key \in CitationKeys |-> IF key \in DOMAIN f THEN f[key] ELSE JMissing]

NoFields == [key \in CitationKeys |-> JMissing]

\* A JSON value in the place of the citations or of one citation: an object
\* (shape "dict", its keys in f), a list (its elements in items), a string or
\* null.
JObject(f) == [shape |-> "dict", items |-> <<>>, f |-> Fields(f)]
JList(items) == [shape |-> "list", items |-> items, f |-> NoFields]
JString == [shape |-> "text", items |-> <<>>, f |-> NoFields]
JNone == [shape |-> "null", items |-> <<>>, f |-> NoFields]

CitationObjects ==
    { JObject(("document" :> JText("Civil Code")) @@ ("sec" :> JText("12"))
                @@ ("link" :> JText("http://x"))),
      JObject(("doc" :> JText("")) @@ ("title" :> JText("Statute"))
                @@ ("name" :> JText("Other")) @@ ("page" :> JInt(3))
                @@ ("section" :> JText("4"))),
      JObject(("document" :> JText("Rules")) @@ ("title" :> JText("Annex"))),
      JObject(("name" :> JInt(7))),
      JObject(("doc" :> JNull) @@ ("document" :> JInt(0)) @@ ("page" :> JText("9"))),
      JObject(("url" :> JText("http://z"))),
      JObject(("doc" :> JText("Act")) @@ ("p" :> JText("2"))
                @@ ("section_number" :> JText("1")) @@ ("href" :> JText("http://y"))) }

\* what a list of citations can hold
CitationElements == CitationObjects \cup {JString, JNone, JList(<<>>)}

\* what a backend can send as citations
RawCitations ==
    { JList(items) : items \in SeqsUpTo(CitationElements, MaxCit) }
        \cup CitationObjects \cup {JObject(<<>>), JString, JNone}

\* citation.get(key)
Get(citation, key) ==
    IF citation.f[key].k = "missing" THEN JNull ELSE citation.f[key]

\* a normalizer that looks at title before document
normalize_citation_title_first(citation) ==
    IF citation.shape # "dict" THEN <<>>
    ELSE LET doc == Or(Or(Or(Get(citation, "doc"), Get(citation, "title")),
                          Get(citation, "document")), Get(citation, "name"))
         IN  IF ~Truthy(doc) THEN <<>>
             ELSE <<[doc |-> Str(doc), page |-> <<>>, section |-> <<>>, url |-> ""]>>

\* normalize_citation: <<>> for None, <<c>> for the dictionary c; a key the
\* dictionary does not have is <<>>
normalize_citation(citation) ==
    IF citation.shape # "dict" THEN <<>>
    ELSE LET doc == Or(Or(Or(Get(citation, "doc"), Get(citation, "document")),
                          Get(citation, "title")), Get(citation, "name"))
             page == Or(Get(citation, "page"), Get(citation, "p"))
             section == Or(Or(Get(citation, "section"), Get(citation, "sec")),
                           Get(citation, "section_number"))
             url == Or(Or(Get(citation, "url"), Get(citation, "link")),
                       Get(citation, "href"))
         IN  IF ~Truthy(doc) THEN <<>>
             ELSE <<[doc |-> Str(doc),
                     page |-> IF Truthy(page) THEN <<Str(page)>> ELSE <<>>,
                     section |-> IF ~Truthy(page) /\ Truthy(section)
                                 THEN <<Str(section)>> ELSE <<>>,
                     url |-> IF Truthy(url) THEN Str(url) ELSE ""]>>

\* not citations: None, an empty list, an empty dictionary
NotCitations(citations) ==
    \/ citations.shape = "null"
    \/ citations.shape = "list" /\ citations.items = <<>>
    \/ citations.shape = "dict" /\ citations.f = NoFields

\* the loop of normalize_citations
RECURSIVE NormalizeEach(_)
NormalizeEach(items) ==
    IF items = <<>> THEN <<>>
    ELSE normalize_citation(Head(items)) \o NormalizeEach(Tail(items))

normalize_citations(citations) ==
    IF NotCitations(citations) THEN <<>>
    ELSE IF citations.shape = "dict" THEN normalize_citation(citations)
    ELSE IF citations.shape = "list" THEN NormalizeEach(citations.items)
    ELSE <<>>

\* A descriptor of the pp1 list.
PP1Descriptor(n, e) == [name |-> n, endpoint |-> e]

PP1Registries ==
    { <<>>,
      <<PP1Descriptor("N", "urlN")>>,
      <<PP1Descriptor("M", "urlM"), PP1Descriptor("N", "urlN")>> }

\* The body of a response: shape "dict" (a JSON object with the keys text
\* and citations, each present or not), "list" (a non-empty JSON array),
\* "empty_list" ([]) or "invalid" (r.json() raises).
PP1Body(sh, t, c) == [shape |-> sh, text |-> t, citations |-> c]

PP1Bodies ==
    { PP1Body("dict", <<"answer">>, <<c>>) : c \in RawCitations }
        \cup { PP1Body("dict", <<"answer">>, <<>>),
               PP1Body("dict", <<>>, <<JList(<<>>)>>),
               PP1Body("dict", <<>>, <<>>),
               PP1Body("list", <<>>, <<>>),
               PP1Body("empty_list", <<>>, <<>>),
               PP1Body("invalid", <<>>, <<>>) }

\* What requests.post does: a response, requests.Timeout, another exception.
PP1Net(kd, b, d) == [kind |-> kd, body |-> b, detail |-> d]

PP1Behaviours ==
    { PP1Net("response", b, "") : b \in PP1Bodies }
        \cup { PP1Net("timeout", PP1Body("invalid", <<>>, <<>>), ""),
               PP1Net("error", PP1Body("invalid", <<>>, <<>>), "refused") }

\* r.json() followed by the normalization of the citations key: <<>> for
\* None, <<data>> otherwise, the citations of data normalized
ParsedBody(b) ==
    IF b.shape = "invalid" THEN <<>>
    ELSE IF b.shape = "dict" /\ b.citations # <<>>
         THEN <<PP1Body("dict", b.text, <<normalize_citations(b.citations[1])>>)>>
         ELSE <<b>>

PP1Response(sn, ep, st, res, to, err) ==
    [service_name |-> sn, endpoint |-> ep, status_code |-> st, result |-> res,
     timeout |-> to, error |-> err]

ask_normativa(service_name, endpoint, net) ==
    CASE net.kind = "response" ->
            PP1Response(service_name, endpoint, <<200>>, ParsedBody(net.body), FALSE, <<>>)
      [] net.kind = "timeout" ->
            PP1Response(service_name, endpoint, <<>>, <<>>, TRUE, <<"timeout">>)
      [] net.kind = "error" ->
            PP1Response(service_name, endpoint, <<>>, <<>>, FALSE, <<net.detail>>)

\* a Python value in the citations of the answer: a list or None
PyList(items) == [k |-> "list", items |-> items]
PyNone == [k |-> "none", items |-> <<>>]

ToolAnswer(t, c) == [text |-> t, citations |-> c]

\* resp.get("result") or {}
ResultOrEmpty(r) ==
    IF \/ r.result = <<>>
       \/ r.result[1].shape = "empty_list"
       \/ r.result[1] = PP1Body("dict", <<>>, <<>>)
    THEN PP1Body("dict", <<>>, <<>>)
    ELSE r.result[1]

\* the value ask_normativa_tool returns after the call
ShapedAnswer(r) ==
    LET data == ResultOrEmpty(r)
    IN  ToolAnswer(IF data.shape = "dict" THEN data.text ELSE <<>>,
                   IF data.shape = "dict"
                   THEN IF data.citations = <<>> THEN PyNone
                        ELSE PyList(data.citations[1])
                   ELSE PyList(<<>>))

ServiceLog(svc, r) ==
    [service_type |-> "pp1", service_name |-> svc.name, endpoint |-> svc.endpoint,
     result |-> r.result, timeout |-> r.timeout, error |-> r.error]

InitNormativa ==
    /\ pp1 \in PP1Registries
    /\ n_pc = "start"
    /\ backend = <<>>
    /\ resp = <<>>
    /\ service_logs = <<>>
    /\ answer = <<>>
    /\ conf = <<>>
    /\ delta = 0
    /\ pc = "off"
    /\ reg_async = <<>>
    /\ tasks = <<>>
    /\ results = <<>>
    /\ pp2_list = <<>>
    /\ candidates = <<>>
    /\ decision = "unknown"
    /\ identity = <<>>
    /\ service_threshold = <<>>
    /\ access_logs = <<>>
    /\ raised = ""
    /\ out_of_order = FALSE

\* the registry has no pp1 service
NoBackend ==
    /\ n_pc = "start"
    /\ pp1 = <<>>
    /\ answer' = <<ToolAnswer(<<"No PP1 configured">>, PyList(<<>>))>>
    /\ n_pc' = "returned"
    /\ UNCHANGED <<pp1, backend, resp, service_logs>>
    /\ UNCHANGED identify_vars

\* the first service of the list is asked
Ask(net) ==
    /\ n_pc = "start"
    /\ pp1 # <<>>
    /\ backend' = <<net>>
    /\ resp' = <<ask_normativa(pp1[1].name, pp1[1].endpoint, net)>>
    /\ n_pc' = "asked"
    /\ UNCHANGED <<pp1, service_logs, answer>>
    /\ UNCHANGED identify_vars

\* get_db() raises, outside the try block
ServiceLogNoHandle ==
    /\ n_pc = "asked"
    /\ n_pc' = "raised"
    /\ UNCHANGED <<pp1, backend, resp, service_logs, answer>>
    /\ UNCHANGED identify_vars

\* insert_one raises: swallowed, the answer is returned
ServiceLogInsertFails ==
    /\ n_pc = "asked"
    /\ answer' = <<ShapedAnswer(resp[1])>>
    /\ n_pc' = "returned"
    /\ UNCHANGED <<pp1, backend, resp, service_logs>>
    /\ UNCHANGED identify_vars

\* the call is logged and the answer is returned
ServiceLogWritten ==
    /\ n_pc = "asked"
    /\ service_logs' = Append(service_logs, ServiceLog(pp1[1], resp[1]))
    /\ answer' = <<ShapedAnswer(resp[1])>>
    /\ n_pc' = "returned"
    /\ UNCHANGED <<pp1, backend, resp>>
    /\ UNCHANGED identify_vars

NextNormativa ==
    \/ NoBackend
    \/ \E net \in PP1Behaviours : Ask(net)
    \/ ServiceLogNoHandle
    \/ ServiceLogInsertFails
    \/ ServiceLogWritten

SpecNormativa == InitNormativa /\ [][NextNormativa]_vars

(***************************************************************************)
(* Properties.                                                             *)
(***************************************************************************)

\* the decision of the request has been computed (it is what is returned
\* when identify_person returns)
DecisionMade == pc \in {"decided", "returned"} \/ raised = "get_db"

Top == candidates[1]

\* the threshold the decision was taken against
Tau == service_threshold[1]

\* the payload of an outcome is an object that contains a score key
ScoredObject(r) == r.result.shape = "dict" /\ r.result.score.k \in {"num", "bad", "huge"}

NoUsablePayload == \A i \in 1..Len(results) : ~ScoredObject(results[i])

\* C1: when no outcome carries a payload that is an object with a score key
\* (the empty outcome list included), the decision is unknown, the identity
\* is null and the candidates list is empty.
C1_NoCandidateUnknown ==
    (DecisionMade /\ NoUsablePayload)
        => (decision = "unknown" /\ identity = <<>> /\ candidates = <<>>)

\* a request returned whose outcomes include an object without score key and
\* a timeout
C1_Witness ==
    /\ pc = "returned"
    /\ NoUsablePayload
    /\ \E i \in 1..Len(results) : results[i].result.shape = "dict"
    /\ \E i \in 1..Len(results) : results[i].timeout

\* C2: a top candidate with is_me true and score >= tau, alone or more than
\* delta above the second, gives identified with identity
\* {score: top.score, threshold: tau, is_me: true}.
C2_Identified ==
    (/\ DecisionMade
     /\ candidates # <<>>
     /\ Top.is_me
     /\ Top.score >= Tau
     /\ (Len(candidates) = 1 \/ Top.score - candidates[2].score > delta))
        => (/\ decision = "identified"
            /\ identity = <<[score |-> Top.score, threshold |-> Tau, is_me |-> TRUE]>>)

\* a single candidate that meets its threshold was returned as identified
C2_Witness ==
    /\ pc = "returned"
    /\ Len(candidates) = 1
    /\ Top.is_me
    /\ Top.score >= Tau
    /\ decision = "identified"
    /\ identity # <<>>
    /\ identity[1].score = Top.score

\* C3: a top candidate with is_me true and score >= tau and a second
\* candidate within delta of it give ambiguous with a null identity,
\* whatever the second candidate's is_me.
C3_Ambiguous ==
    (/\ DecisionMade
     /\ Len(candidates) > 1
     /\ Top.is_me
     /\ Top.score >= Tau
     /\ Top.score - candidates[2].score <= delta)
        => (decision = "ambiguous" /\ identity = <<>>)

\* the second candidate denies the match and is exactly delta below the top
C3_Witness ==
    /\ pc = "returned"
    /\ Len(candidates) > 1
    /\ Top.is_me
    /\ Top.score >= Tau
    /\ ~candidates[2].is_me
    /\ delta > 0
    /\ Top.score - candidates[2].score = delta
    /\ decision = "ambiguous"

DecisionWith(d) == Decide(candidates, pp2_list, d).decision

\* C4: for the candidates and registry of a request and margins d1 <= d2:
\* identified with d2 implies identified with d1, ambiguous with d1 implies
\* ambiguous with d2, and unknown does not depend on the margin.  The
\* request's own decision is the one for its delta.
C4_MonotoneInDelta ==
    DecisionMade =>
        /\ decision = DecisionWith(delta)
        /\ \A d1, d2 \in Deltas :
              d1 <= d2 =>
                 /\ DecisionWith(d2) = "identified" => DecisionWith(d1) = "identified"
                 /\ DecisionWith(d1) = "ambiguous" => DecisionWith(d2) = "ambiguous"
                 /\ DecisionWith(d1) = "unknown" <=> DecisionWith(d2) = "unknown"

\* a request decided ambiguous that a smaller margin would have identified
C4_Witness ==
    /\ pc = "returned"
    /\ decision = "ambiguous"
    /\ \E d \in Deltas : d < delta /\ DecisionWith(d) = "identified"

AfterGather == pc \in {"collected", "decided", "returned", "raised"}

\* the value or exception task i settled with
Settled(i) == tasks[i].ret[1]

\* a call that timed out or failed: it raised, or it returned an outcome
\* without payload that carries the timeout flag or an error
TimedOutOrFailed(r) ==
    \/ r.kind = "exception"
    \/ (r.timeout \/ r.error # "") /\ r.result.shape = "none"

\* C5: when every dispatched call timed out or failed, there are as many
\* outcomes as calls, no candidate, the decision is unknown, and no
\* exception leaves identify_person.
C5_AllFailed ==
    (/\ tasks # <<>>
     /\ AllSettled(tasks)
     /\ \A i \in 1..Len(tasks) : TimedOutOrFailed(Settled(i)))
        => (/\ raised = ""
            /\ pc \in {"collected", "decided", "returned"} => Len(results) = Len(tasks)
            /\ pc \in {"decided", "returned"} =>
                  (candidates = <<>> /\ decision = "unknown"))

\* C6: the candidates are in descending order of score, and candidates of
\* equal score are in the order of their outcomes (dispatch order).
C6_StableRanking ==
    DecisionMade =>
        \A i, j \in 1..Len(candidates) :
            i < j =>
               \/ candidates[i].score > candidates[j].score
               \/ /\ candidates[i].score = candidates[j].score
                  /\ candidates[i].idx < candidates[j].idx

\* two services tie for the highest score and the earlier one is the top
C6_Witness ==
    /\ pc = "returned"
    /\ Len(candidates) > 1
    /\ Top.score = candidates[2].score
    /\ Top.score > 0
    /\ Top.service # candidates[2].service
    /\ Top.idx = 1

\* C7: a top candidate with is_me false, or with a score below tau, gives
\* unknown with a null identity.
C7_DeniedOrBelow ==
    (/\ DecisionMade
     /\ candidates # <<>>
     /\ (~Top.is_me \/ Top.score < Tau))
        => (decision = "unknown" /\ identity = <<>>)

\* the top denies the match with a score above tau while the second
\* candidate claims it with a score that meets its own threshold
C7_Witness ==
    /\ pc = "returned"
    /\ Len(candidates) > 1
    /\ ~Top.is_me
    /\ Top.score >= Tau
    /\ Top.score > candidates[2].score
    /\ candidates[2].is_me
    /\ \E i \in 1..Len(pp2_list) :
          /\ pp2_list[i].name = candidates[2].service
          /\ IsDispatched(pp2_list[i])
          /\ pp2_list[i].threshold.k \in {"num", "absent"}
          /\ candidates[2].score >=
                (IF pp2_list[i].threshold.k = "num" THEN pp2_list[i].threshold.v ELSE DefaultRegistryThreshold)
    /\ decision = "unknown"

\* the descriptor whose call produced the top candidate
ProducingDescriptor == SelectDispatched(reg_async)[Top.idx]

\* C8: the threshold compared against the top score, and reported in the
\* identity, is the registry threshold of the descriptor that produced the
\* top candidate, 0.9 when that descriptor has no usable threshold.
C8_ProducerThreshold ==
    (DecisionMade /\ candidates # <<>>)
        => (/\ Tau = (IF ProducingDescriptor.threshold.k = "num"
                      THEN ProducingDescriptor.threshold.v ELSE DefaultRegistryThreshold)
            /\ identity # <<>> => identity[1].threshold = Tau)

\* C9: identify_person is past the gather only when every dispatched call
\* has settled, and then holds one outcome per call.
C9_Barrier ==
    AfterGather => (AllSettled(tasks) /\ Len(results) = Len(tasks))

\* a request returned after one call succeeded and the other timed out
C9_Witness ==
    /\ pc = "returned"
    /\ Len(tasks) = 2
    /\ \E i, j \in 1..2 :
          /\ Settled(i).kind = "outcome" /\ Settled(i).result.shape = "dict"
          /\ Settled(j).kind = "outcome" /\ Settled(j).timeout

\* C10: the outcome that replaces a fault raised by the call at position i
\* carries the fault's message and the service_name and endpoint that call
\* was dispatched with, and the fault does not leave identify_person.
C10_FaultAttribution ==
    AfterGather =>
        \A i \in 1..Len(tasks) :
            Settled(i).kind = "exception" =>
                /\ i <= Len(results)
                /\ results[i].kind = "outcome"
                /\ results[i].error = Settled(i).error
                /\ results[i].service_name = tasks[i].service_name
                /\ results[i].endpoint = tasks[i].endpoint
                /\ raised \in {"", "get_db", "OverflowError"}

\* C11: a failure of the audit sink changes nothing for the caller: once
\* the decision is made the request returns it and raises nothing.
C11_SinkNeverAffects ==
    DecisionMade =>
        /\ raised = ""
        /\ pc = "returned" => decision = DecisionWith(delta)

\* C14: the identity is non-null exactly when the decision is identified,
\* and a non-null identity has is_me true and a score that is at least its
\* threshold.
C14_IdentityIffIdentified ==
    DecisionMade =>
        /\ identity # <<>> <=> decision = "identified"
        /\ identity # <<>> =>
              (identity[1].is_me /\ identity[1].score >= identity[1].threshold)

\* an identified request returned with its identity, the score above the
\* threshold
C14_Witness ==
    /\ pc = "returned"
    /\ decision = "identified"
    /\ identity # <<>>
    /\ identity[1].score > identity[1].threshold

\* C17: the descriptor list the threshold is resolved in has the contents
\* of the descriptor list the calls were dispatched from.
C17_SingleSnapshot ==
    pc \in {"decided", "returned", "raised"} => pp2_list = reg_async

\* C20: an outcome returned by call_verifier with a payload has neither
\* the timeout flag nor an error; one with the timeout flag has error
\* "timeout" and no payload; one with an error has no payload.
C20_OutcomeSignal ==
    \A i \in 1..Len(tasks) :
        (tasks[i].ret # <<>> /\ Settled(i).kind = "outcome") =>
            /\ Settled(i).result.shape # "none" =>
                  (~Settled(i).timeout /\ Settled(i).error = "")
            /\ Settled(i).timeout =>
                  (Settled(i).error = "timeout" /\ Settled(i).result.shape = "none")
            /\ Settled(i).error # "" => Settled(i).result.shape = "none"

\* the positions of the descriptors of pp2 whose active flag is true or
\* unspecified and whose endpoint is not empty
Qualifying(pp2) ==
    { i \in 1..Len(pp2) :
        pp2[i].active.k \in {"true", "absent"} /\ pp2[i].endpoint_verify # "" }

\* the k-th smallest element of a set of positions
KthOf(S, k) == CHOOSE i \in S : Cardinality({ j \in S : j < i }) = k - 1

\* the calls of the request are those to the qualifying descriptors, one
\* each, in registry order
OneCallPerQualifying ==
    pc # "start" =>
        /\ Len(tasks) = Cardinality(Qualifying(reg_async))
        /\ \A k \in 1..Len(tasks) :
              /\ tasks[k].service_name = reg_async[KthOf(Qualifying(reg_async), k)].name
              /\ tasks[k].endpoint =
                    reg_async[KthOf(Qualifying(reg_async), k)].endpoint_verify

\* once dispatched no call is added, and a call that has settled, however
\* it ended, is not made again
NoRetry ==
    pc # "start" =>
        /\ Len(tasks') = Len(tasks)
        /\ \A i \in 1..Len(tasks) : tasks[i].ret # <<>> => tasks'[i] = tasks[i]

\* C13: a call is dispatched for a descriptor exactly when its active flag
\* is true or unspecified and its endpoint is not empty, once per such
\* descriptor, and no call is made again after it has failed or timed out.
C13_DispatchExactlyOnce == []OneCallPerQualifying /\ [][NoRetry]_vars

\* a registry with an inactive descriptor and a qualifying one, whose single
\* call timed out, and the request returned
C13_Witness ==
    /\ pc = "returned"
    /\ Len(reg_async) = 2
    /\ \E i \in 1..2 : reg_async[i].active.k = "false"
    /\ Len(tasks) = 1
    /\ Settled(1).timeout

\* values a backend may put in the threshold field of its payload
ReportedThresholds == {Absent, Num(80), Num(160), Bad, Huge}

\* the outcome list of the request with the threshold field of the payload
\* at position i replaced by t
WithThreshold(i, t) == [results EXCEPT ![i].result.threshold = t]

\* the request decided on outcome list rs ends like this request: nothing
\* is raised, the decision and identity are the same, and the candidates
\* have the same scores and is_me
EndsAlike(rs) ==
    /\ ~BuildRaises(rs)
    /\ LET cands == SortByScore(BuildCandidates(rs))
           d == Decide(cands, pp2_list, delta)
       IN  /\ d.decision = decision
           /\ d.identity = identity
           /\ Len(cands) = Len(candidates)
           /\ \A k \in 1..Len(cands) :
                 /\ cands[k].score = candidates[k].score
                 /\ cands[k].is_me = candidates[k].is_me

\* C18: a request whose outcome list differs from this one only in the
\* threshold field of one payload, whatever value it holds, has the same
\* decision and identity and the same score and is_me for every candidate.
C18_ReportedThresholdInert ==
    DecisionMade =>
        \A i \in 1..Len(results) : \A t \in ReportedThresholds :
            results[i].result.shape = "dict" => EndsAlike(WithThreshold(i, t))

\* C12: a call that returned an outcome has emitted exactly one audit
\* record, and the record's result, timeout and error are those of the
\* outcome returned.
C12_OneRecordPerCall ==
    \A i \in 1..Len(tasks) :
        (tasks[i].ret # <<>> /\ Settled(i).kind = "outcome") =>
            /\ Len(tasks[i].logs) = 1
            /\ tasks[i].logs[1].result = Settled(i).result
            /\ tasks[i].logs[1].timeout = Settled(i).timeout
            /\ tasks[i].logs[1].error = Settled(i).error

SentCitations == backend[1].body.citations[1]

CitationsSent ==
    /\ backend # <<>>
    /\ backend[1].kind = "response"
    /\ backend[1].body.shape = "dict"
    /\ backend[1].body.citations # <<>>

DocAliases == <<"doc", "document", "title", "name">>

\* the key holds a value that is not null, not empty and not zero
Populated(e, key) ==
    /\ e.f[key].k \in {"text", "int"}
    /\ e.f[key] # JText("")
    /\ e.f[key] # JInt(0)

Kept(e) == e.shape = "dict" /\ \E i \in 1..4 : Populated(e, DocAliases[i])

FirstPopulated(e) ==
    DocAliases[CHOOSE i \in 1..4 :
                  /\ Populated(e, DocAliases[i])
                  /\ \A j \in 1..(i - 1) : ~Populated(e, DocAliases[j])]

\* a value as the string a citation carries
AsText(v) == IF v.k = "text" THEN v.s ELSE ToString(v.n)

\* the objects handed to the normalizer: the elements of a list, or the
\* single object
InputElements(raw) ==
    IF raw.shape = "list" THEN raw.items
    ELSE IF raw.shape = "dict" THEN <<raw>>
    ELSE <<>>

KeptInputs(raw) == SelectSeq(InputElements(raw), Kept)

\* C15: the citations normalize_citations returns are, in the input order,
\* one per input object that has one of doc, document, title, name
\* populated, each with the doc of the first of these keys that is
\* populated (as a string); the other objects and the elements that are not
\* objects are left out.
C15_KeepsByDoc ==
    CitationsSent =>
        LET out == resp[1].result[1].citations[1]
            kept == KeptInputs(SentCitations)
        IN  /\ Len(out) = Len(kept)
            /\ \A i \in 1..Len(out) :
                  out[i].doc = AsText(kept[i].f[FirstPopulated(kept[i])])

\* a list of an element that is not an object, an object without a populated
\* alias and an object whose doc is empty and whose title is not: one
\* citation is kept
C15_Witness ==
    /\ CitationsSent
    /\ SentCitations.shape = "list"
    /\ Len(SentCitations.items) = 2
    /\ ~Kept(SentCitations.items[1])
    /\ Kept(SentCitations.items[2])
    /\ ~Populated(SentCitations.items[2], "doc")
    /\ Populated(SentCitations.items[2], "document")
    /\ Populated(SentCitations.items[2], "title")
    /\ Len(resp[1].result[1].citations[1]) = 1

\* C16: the citations of the answer ask_normativa_tool returns are a list:
\* the normalized citations of the body when the backend sent an object that
\* has the key, and the empty list otherwise.
C16_CitationsAreNormalized ==
    n_pc = "returned" =>
        /\ answer[1].citations.k = "list"
        /\ answer[1].citations.items =
              IF CitationsSent THEN resp[1].result[1].citations[1] ELSE <<>>

\* candidate construction is over: identify_person has left the loop over
\* the outcomes, by its end or by an exception
CandidatesBuilt == pc \in {"decided", "returned", "raised"}

\* a numeric field of the payload is there and is not a number float()
\* converts
MalformedNumber(r) ==
    \E x \in {r.result.score, r.result.threshold, r.result.timing_ms} :
        x.k \in {"bad", "huge"}

CandidatesOf(i) == { j \in 1..Len(candidates) : candidates[j].idx = i }

\* C21: once the candidates are built there is exactly one candidate for
\* each outcome whose payload is an object with a score key and none for
\* any other outcome, and the candidate of a payload with a malformed
\* numeric field has is_me false, score 0.0, threshold 0.5 and timing_ms 0.0.
C21_CandidatePerScoredPayload ==
    CandidatesBuilt =>
        \A i \in 1..Len(results) :
            /\ ScoredObject(results[i]) => Cardinality(CandidatesOf(i)) = 1
            /\ ~ScoredObject(results[i]) => CandidatesOf(i) = {}
            /\ (ScoredObject(results[i]) /\ MalformedNumber(results[i])) =>
                  \A j \in CandidatesOf(i) :
                      /\ candidates[j].is_me = FALSE
                      /\ candidates[j].score = DefaultScore
                      /\ candidates[j].threshold = DefaultReportedThreshold
                      /\ candidates[j].timing_ms = DefaultTiming

\* identify_person returned its result
Returned == pc = "returned"

\* no call was created, and the request is not waiting for one
NothingToAwait == tasks = <<>> => pc # "gather"

\* C22: when every dispatched call settles, the request returns a result
\* with a decision; a request for which no descriptor qualifies never
\* waits for a call.
C22_Termination == <>Returned /\ []NothingToAwait

====
